---- MODULE Spec2Model ----
(***************************************************************************)
(* auto-abloop: loop-point and fade-out analysis of a decoded track        *)
(* (src/src/analysis.rs) and the looping sample source that consumes the   *)
(* result (src/src/player.rs, src/src/export.rs).                          *)
(*                                                                         *)
(* Numbers.  An f32 sample is an integer count of thousandths of full      *)
(* scale (2 stands for 0.002), and f32 arithmetic is taken as exact real   *)
(* arithmetic: a value that the code obtains with sqrt and division is     *)
(* kept as the integers it is the quotient of (an RMS as sum of squares    *)
(* and window length, a correlation as numerator and squared               *)
(* denominator), and compared by cross-multiplication.  On this grid a     *)
(* denominator is either 0 or far above the code's 1e-9 guards.            *)
(* usize arithmetic is unbounded except at the two subtractions that can   *)
(* go below zero; there the build decides (overflow_checks).               *)
(***************************************************************************)
EXTENDS Integers, Sequences, FiniteSets, Bags, TLC

----------------------------------------------------------------------------
(* Option<T>: None is the empty tuple, Some(v) the one-element tuple.      *)
None == << >>
Some(v) == << v >>
IsSome(o) == Len(o) = 1
Unwrap(o) == o[1]

Abs(x) == IF x < 0 THEN -x ELSE x
Min(a, b) == IF a <= b THEN a ELSE b
Max(a, b) == IF a >= b THEN a ELSE b
(* usize::saturating_sub *)
saturating_sub(a, b) == IF a >= b THEN a - b ELSE 0
(* 0-based indexing and half-open slices of a Vec / slice *)
At(s, i) == s[i + 1]
Slice(s, lo, hi) == [k \in 1..(hi - lo) |-> s[lo + k]]

RECURSIVE SumSq(_, _, _)
(* sum of s[i]^2 over lo <= i < hi (0-based) *)
SumSq(s, lo, hi) == IF lo >= hi THEN 0 ELSE At(s, lo) * At(s, lo) + SumSq(s, lo + 1, hi)

RECURSIVE SumRange(_, _, _)
(* sum of s[i] over lo <= i < hi (0-based) *)
SumRange(s, lo, hi) == IF lo >= hi THEN 0 ELSE At(s, lo) + SumRange(s, lo + 1, hi)

RECURSIVE Dot(_, _, _, _, _)
(* sum of a[i0 + k] * b[j0 + k] over 0 <= k < len *)
Dot(a, i0, b, j0, len) ==
    IF len = 0 THEN 0
    ELSE At(a, i0 + len - 1) * At(b, j0 + len - 1) + Dot(a, i0, b, j0, len - 1)

----------------------------------------------------------------------------
(* Constants of the analysis (analysis.rs lines 6-9), samples in           *)
(* thousandths, durations in seconds.                                      *)
COARSE_SAMPLE_RATE == 4000
QUERY_DURATION_SEC == 15
MIN_LOOP_DURATION_SEC == 10
SILENCE_THRESHOLD == 1
(* detect_fade_out: at least 5 s of audible content, at most 60 s scanned, *)
(* at least 5 RMS windows.                                                 *)
MIN_AUDIO_SEC == 5
SCAN_MAX_SEC == 60
MIN_RMS_WINDOWS == 5
(* find_best_lag_fft: margin against a self-match; detect_loop_fft: margin *)
(* below the query start; refine radius in seconds.                        *)
SELF_MATCH_MARGIN == 100
QUERY_GUARD == 1000
REFINE_RADIUS_SEC == 2
(* FadeOutInfo.confidence is the fixed 0.8, in thousandths *)
FADE_CONFIDENCE == 800

(* (ms as f32 / 1000.0 * sample_rate as f32) as usize *)
MsToSamples(ms, sample_rate) == (ms * sample_rate) \div 1000

----------------------------------------------------------------------------
(* the channels of a frame added up and not divided *)
mix_to_mono_summing(audio) ==
    LET channels == audio.channels IN
    IF channels = 1 THEN audio.samples
    ELSE [f \in 1..(Len(audio.samples) \div channels) |->
            SumRange(audio.samples, (f - 1) * channels, f * channels)]

(* mix_to_mono: one mono sample per complete frame, the mean of its        *)
(* channel group (chunks_exact drops an incomplete last frame).  The mean  *)
(* is an exact quotient on the inputs drawn here: every frame's sum is a   *)
(* multiple of the channel count.                                          *)
mix_to_mono(audio) ==
    LET channels == audio.channels IN
    IF channels = 1 THEN audio.samples
    ELSE [f \in 1..(Len(audio.samples) \div channels) |->
            SumRange(audio.samples, (f - 1) * channels, f * channels) \div channels]

RECURSIVE LastAbove(_, _, _, _)
(* the last index in lo..hi-1 whose magnitude exceeds the threshold, -1 if *)
(* there is none: what the backward scan of find_effective_end meets       *)
(* first (the later half of the range is looked at before the earlier)     *)
LastAbove(mono, threshold, lo, hi) ==
    IF lo >= hi THEN -1
    ELSE IF hi - lo = 1
         THEN IF Abs(At(mono, lo)) * threshold[2] > threshold[1] THEN lo ELSE -1
    ELSE LET mid == (lo + hi) \div 2
             later == LastAbove(mono, threshold, mid, hi)
         IN IF later >= 0 THEN later ELSE LastAbove(mono, threshold, lo, mid)

(* the index of the last loud sample returned in place of the one after it *)
find_effective_end_at_index(mono, threshold) ==
    LET i == LastAbove(mono, threshold, 0, Len(mono))
    IN IF i >= 0 THEN i ELSE Len(mono)

(* 0 returned when nothing exceeds the threshold *)
find_effective_end_zero_when_silent(mono, threshold) ==
    LET i == LastAbove(mono, threshold, 0, Len(mono))
    IN IF i >= 0 THEN i + 1 ELSE 0

(* find_effective_end: i + 1 for the last index i whose magnitude exceeds  *)
(* the threshold, the full length if there is none.  The threshold is the  *)
(* quotient threshold[1] / threshold[2].                                   *)
find_effective_end(mono, threshold) ==
    LET i == LastAbove(mono, threshold, 0, Len(mono))
    IN IF i >= 0 THEN i + 1 ELSE Len(mono)

(* calculate_rms: sqrt(sum_sq / len), kept as the pair it is computed      *)
(* from (len + 1e-9 rounds to len in f32).                                 *)
calculate_rms(data) == [sum_sq |-> SumSq(data, 0, Len(data)), len |-> Len(data)]
(* a > b, a < 0.9 * b, a < volume, a < 2 * b on such pairs *)
RmsGreater(a, b) == a.sum_sq * b.len > b.sum_sq * a.len
RmsBelowNineTenths(a, b) == 100 * a.sum_sq * b.len < 81 * b.sum_sq * a.len
RmsBelowVolume(a, volume) == a.sum_sq < volume * volume * a.len
RmsBelowTwice(a, b) == a.sum_sq * b.len < 4 * b.sum_sq * a.len

RECURSIVE ScanWindowsOneTooFar(_, _, _, _)
(* one window too many: curr compared with scan_start alone *)
ScanWindowsOneTooFar(curr, scan_start, window_size_samples, indices) ==
    IF curr >= scan_start /\ curr >= window_size_samples
    THEN ScanWindowsOneTooFar(curr - window_size_samples, scan_start, window_size_samples,
                              Append(indices, curr - window_size_samples))
    ELSE indices

RECURSIVE ScanWindows(_, _, _, _)
(* the while loop of detect_fade_out (lines 360-367): the window starts,   *)
(* from the effective end backwards                                        *)
ScanWindows(curr, scan_start, window_size_samples, indices) ==
    IF curr >= scan_start + window_size_samples /\ curr >= window_size_samples
    THEN ScanWindows(curr - window_size_samples, scan_start, window_size_samples,
                     Append(indices, curr - window_size_samples))
    ELSE indices

RECURSIVE FadeStartIdxThroughPlateau(_, _, _)
(* the onset moved back over every window that does not drop by more than  *)
(* 10%, not only over those that rise                                      *)
FadeStartIdxThroughPlateau(rms_history, i, fs) ==
    IF i >= Len(rms_history) - 1 THEN fs
    ELSE IF RmsBelowNineTenths(At(rms_history, i + 1), At(rms_history, i)) THEN fs
    ELSE FadeStartIdxThroughPlateau(rms_history, i + 1, i + 1)

RECURSIVE FadeStartIdx(_, _, _)
(* the for loop of detect_fade_out (lines 379-389), from position i with   *)
(* fade_start_idx_in_history = fs (0-based into rms_history)               *)
FadeStartIdx(rms_history, i, fs) ==
    IF i >= Len(rms_history) - 1 THEN fs
    ELSE IF RmsGreater(At(rms_history, i + 1), At(rms_history, i))
         THEN FadeStartIdx(rms_history, i + 1, i + 1)
    ELSE IF RmsBelowNineTenths(At(rms_history, i + 1), At(rms_history, i)) THEN fs
    ELSE FadeStartIdx(rms_history, i + 1, fs)

(* the gates without the test of a 6 dB drop *)
FadeGatesWithoutDrop(duration, min_duration, start_rms, end_rms, volume) ==
    /\ ~(duration < min_duration)
    /\ ~RmsBelowVolume(start_rms, volume)

(* The gates of detect_fade_out after the scan (lines 392-403)             *)
FadeGates(duration, min_duration, start_rms, end_rms, volume) ==
    /\ ~(duration < min_duration)
    /\ ~RmsBelowVolume(start_rms, volume)
    /\ ~RmsBelowTwice(start_rms, end_rms)

(* the duration left in mono frames *)
FadeOutInfoDurationInFrames(start_mono, duration_mono, channels) ==
    [start_sample |-> start_mono * channels,
     duration_samples |-> duration_mono,
     confidence |-> FADE_CONFIDENCE]

FadeOutInfo(start_mono, duration_mono, channels) ==
    [start_sample |-> start_mono * channels,
     duration_samples |-> duration_mono * channels,
     confidence |-> FADE_CONFIDENCE]

detect_fade_out(mono, sample_rate, channels, settings) ==
    LET silence_threshold == <<settings.fade_out_threshold_volume, 2>>
        effective_end_idx == find_effective_end(mono, silence_threshold)
        min_audio_samples == sample_rate * MIN_AUDIO_SEC
        window_size_samples == MsToSamples(settings.fade_out_window_size_ms, sample_rate)
    IN
    IF effective_end_idx < min_audio_samples THEN None
    ELSE IF window_size_samples = 0 \/ window_size_samples >= effective_end_idx THEN None
    ELSE
    LET scan_start == saturating_sub(effective_end_idx, sample_rate * SCAN_MAX_SEC)
        indices == ScanWindows(effective_end_idx, scan_start, window_size_samples, << >>)
        rms_history == [k \in 1..Len(indices) |->
                          calculate_rms(Slice(mono, indices[k], indices[k] + window_size_samples))]
    IN
    IF Len(rms_history) < MIN_RMS_WINDOWS THEN None
    ELSE
    LET fade_start_idx_in_history == FadeStartIdx(rms_history, 0, 0)
        start_sample == At(indices, fade_start_idx_in_history)
        duration == effective_end_idx - start_sample
        min_duration == MsToSamples(settings.min_fade_out_duration_ms, sample_rate)
    IN
    IF FadeGates(duration, min_duration, At(rms_history, fade_start_idx_in_history),
                 At(rms_history, 0), settings.fade_out_threshold_volume)
    THEN Some(FadeOutInfo(start_sample, duration, channels))
    ELSE None

----------------------------------------------------------------------------
(* A normalized correlation num / sqrt(den_a * den_b): den_a belongs to    *)
(* the query (the same for every candidate of one search), den_b to the    *)
(* candidate window.                                                       *)
Corr(num, den_a, den_b) == [num |-> num, den_a |-> den_a, den_b |-> den_b]
(* the literals 0.0 and -1.0 *)
CorrZero == Corr(0, 1, 1)
CorrMinusOne == Corr(-1, 1, 1)
(* a > b for two candidates of the same query (the common factor den_a     *)
(* cancels)                                                                *)
CorrGreater(a, b) ==
    IF a.num >= 0 /\ b.num < 0 THEN TRUE
    ELSE IF a.num < 0 /\ b.num >= 0 THEN FALSE
    ELSE IF a.num >= 0 THEN a.num * a.num * b.den_b > b.num * b.num * a.den_b
    ELSE a.num * a.num * b.den_b < b.num * b.num * a.den_b
(* a > -1.0 *)
CorrAboveMinusOne(a) == a.num >= 0 \/ a.num * a.num < a.den_a * a.den_b
(* a < 0.3 *)
CorrBelowThreshold(a) == a.num < 0 \/ 100 * a.num * a.num < 9 * a.den_a * a.den_b

(* `if corr > best_corr { best = .. }` over candidates in index order keeps *)
(* the first candidate of maximal correlation above the initial -1.0.  The *)
(* scans below compute that left-to-right maximum by halving the index     *)
(* range: Keep is the update of one step, applied to the best of the left  *)
(* half and the best of the right half.                                    *)
Keep(best, cand) ==
    IF best = None THEN cand
    ELSE IF cand = None THEN best
    ELSE IF CorrGreater(cand[1].corr, best[1].corr) THEN cand ELSE best

(* downsample: block averages of `step` samples (the last block may be     *)
(* shorter); the identity for step <= 1                                    *)
downsample(data, step) ==
    IF step <= 1 THEN data
    ELSE [c \in 1..((Len(data) + step - 1) \div step) |->
            LET lo == (c - 1) * step
                hi == Min(c * step, Len(data))
            IN SumRange(data, lo, hi) \div (hi - lo)]

(* compute_moving_sum_squares: energy[i] = sum of data[i .. i+window)^2.   *)
(* The code slides the window (subtract the outgoing square, add the       *)
(* incoming one, clamp below at 0); in exact arithmetic every entry is the *)
(* window's sum of squares and the clamp never acts.                       *)
compute_moving_sum_squares(data, window_size) ==
    [i \in 1..(Len(data) - window_size + 1) |-> SumSq(data, i - 1, i - 1 + window_size)]

RECURSIVE next_power_of_two_from(_, _)
next_power_of_two_from(p, x) == IF p >= x THEN p ELSE next_power_of_two_from(2 * p, x)
next_power_of_two(x) == next_power_of_two_from(1, x)

(* One iteration of the lag loop of find_best_lag_fft (lines 245-262): the *)
(* candidate this lag contributes, if any.  result[k] * scale is the dot   *)
(* product of the query with signal[lag .. lag+m).                         *)
CoarseCandidate(signal, query, local_energy, query_energy, lag) ==
    IF lag < Len(local_energy) /\ At(local_energy, lag) * query_energy > 0
    THEN LET corr == Corr(Dot(signal, lag, query, 0, Len(query)),
                          query_energy, At(local_energy, lag))
         IN IF CorrAboveMinusOne(corr) THEN Some([corr |-> corr, at |-> lag]) ELSE None
    ELSE None

RECURSIVE CoarseScan(_, _, _, _, _, _)
CoarseScan(signal, query, local_energy, query_energy, lo, hi) ==
    IF lo >= hi THEN None
    ELSE IF hi - lo = 1 THEN CoarseCandidate(signal, query, local_energy, query_energy, lo)
    ELSE LET mid == (lo + hi) \div 2
         IN Keep(CoarseScan(signal, query, local_energy, query_energy, lo, mid),
                 CoarseScan(signal, query, local_energy, query_energy, mid, hi))

(* a limit that keeps the lags off the query's own position only *)
SearchLimitWithoutMargin(n, m) == saturating_sub(n, m)

(* `let search_limit = n.saturating_sub(m + 100); // Avoid self-match at   *)
(* end` (line 242)                                                         *)
SearchLimit(n, m) == saturating_sub(n, m + SELF_MATCH_MARGIN)

(* The lag loop of find_best_lag_fft (lines 239-263) for a query that is   *)
(* not empty: the first lag of maximal correlation below search_limit, if  *)
(* any lag has a correlation above the initial -1.0.                       *)
CoarseBest(signal, query) ==
    LET n == Len(signal)
        m == Len(query)
        fft_len == next_power_of_two(n + m)
        local_energy == compute_moving_sum_squares(signal, m)
        query_energy == SumSq(query, 0, m)
        search_limit == SearchLimit(n, m)
        lags == Min(search_limit, fft_len - (m - 1))
    IN CoarseScan(signal, query, local_energy, query_energy, 0, lags)

(* a coarse pass that gives up only when no lag was a candidate at all *)
CoarseRejectedOnlyWhenEmpty(best) == best = None

(* `if best_corr <= 0.0 { return None; }` (line 265) *)
CoarseRejected(best) == best = None \/ best[1].corr.num <= 0

(* find_best_lag_fft.  The answer is panic (the run aborts), or the        *)
(* Option<usize> returned; underflow records that `m - 1` was evaluated    *)
(* with m = 0.  With overflow checks the subtraction panics; without, it   *)
(* wraps to usize::MAX and the range (m - 1)..result.len() is empty.       *)
find_best_lag_fft(signal, query, checks) ==
    LET n == Len(signal)
        m == Len(query)
    IN
    IF n < m THEN [panic |-> FALSE, underflow |-> FALSE, lag |-> None]
    ELSE IF m = 0 THEN [panic |-> checks, underflow |-> TRUE, lag |-> None]
    ELSE
    LET best == CoarseBest(signal, query)
    IN
    [panic |-> FALSE, underflow |-> FALSE,
     lag |-> IF CoarseRejected(best) THEN None ELSE Some(best[1].at)]

(* One iteration of the offset loop of find_best_match_ncc_fine (lines     *)
(* 314-331).  Means and centred sums are kept multiplied by m:             *)
(* num = m*sum(qc) - sum(q)*sum(c), den = m*sum(x^2) - sum(x)^2.           *)
FineCandidate(query, full_mono, query_sum, query_var, search_start_idx, i) ==
    LET m == Len(query)
        cand_sum == SumRange(full_mono, i, i + m)
        cand_var == m * SumSq(full_mono, i, i + m) - cand_sum * cand_sum
    IN
    IF cand_var = 0 THEN None
    ELSE LET corr == Corr(m * Dot(query, 0, full_mono, i, m) - query_sum * cand_sum,
                          query_var, cand_var)
         IN IF CorrAboveMinusOne(corr)
            THEN Some([corr |-> corr, at |-> i - search_start_idx]) ELSE None

RECURSIVE FineScan(_, _, _, _, _, _, _)
FineScan(query, full_mono, query_sum, query_var, search_start_idx, lo, hi) ==
    IF lo >= hi THEN None
    ELSE IF hi - lo = 1
         THEN FineCandidate(query, full_mono, query_sum, query_var, search_start_idx, lo)
    ELSE LET mid == (lo + hi) \div 2
         IN Keep(FineScan(query, full_mono, query_sum, query_var, search_start_idx, lo, mid),
                 FineScan(query, full_mono, query_sum, query_var, search_start_idx, mid, hi))

(* find_best_match_ncc_fine: (best_rel_offset, best_corr) *)
find_best_match_ncc_fine(query, full_mono, search_start_idx, search_end_idx) ==
    LET m == Len(query)
        query_sum == SumRange(query, 0, m)
        query_var == m * SumSq(query, 0, m) - query_sum * query_sum
        max_offset == Min(search_end_idx, saturating_sub(Len(full_mono), m))
    IN
    IF query_var = 0 THEN <<0, CorrZero>>
    ELSE IF max_offset < search_start_idx THEN <<0, CorrZero>>
    ELSE LET best == FineScan(query, full_mono, query_sum, query_var,
                              search_start_idx, search_start_idx, max_offset)
         IN IF best = None THEN <<0, CorrMinusOne>> ELSE <<best[1].at, best[1].corr>>

(* LoopPoints with end_sample left in frames *)
LoopPointsEndInFrames(start_mono, end_mono, original_channels, correlation) ==
    [start_sample |-> start_mono * original_channels,
     end_sample |-> end_mono,
     confidence |-> correlation]

(* LoopPoints with the confidence halved *)
LoopPointsHalfConfidence(start_mono, end_mono, original_channels, correlation) ==
    [start_sample |-> start_mono * original_channels,
     end_sample |-> end_mono * original_channels,
     confidence |-> [correlation EXCEPT !.den_a = 4 * @]]

(* LoopPoints with end_sample taken from the loop start (a copied line) *)
LoopPointsEndFromStart(start_mono, end_mono, original_channels, correlation) ==
    [start_sample |-> start_mono * original_channels,
     end_sample |-> start_mono * original_channels,
     confidence |-> correlation]

LoopPoints(start_mono, end_mono, original_channels, correlation) ==
    [start_sample |-> start_mono * original_channels,
     end_sample |-> end_mono * original_channels,
     confidence |-> correlation]

(* detect_loop_fft, lines 116-131: the query and the coarse search *)
query_len_samples(sample_rate) == sample_rate * QUERY_DURATION_SEC
downsample_factor(sample_rate) == Max(sample_rate \div COARSE_SAMPLE_RATE, 1)
QueryRaw(mono, sample_rate, search_end_idx) ==
    Slice(mono, search_end_idx - query_len_samples(sample_rate), search_end_idx)

CoarseSearch(mono, sample_rate, search_end_idx, checks) ==
    find_best_lag_fft(downsample(Slice(mono, 0, search_end_idx), downsample_factor(sample_rate)),
                      downsample(QueryRaw(mono, sample_rate, search_end_idx),
                                 downsample_factor(sample_rate)),
                      checks)

(* `.min(query_start_idx - 1000)` (line 140).  Below 1000 the subtraction  *)
(* underflows: with overflow checks it panics, without it wraps to a value *)
(* above every index, so the minimum is the other operand.                 *)
SearchEnd(estimated_lag_samples, refine_radius, query_start_idx) ==
    IF query_start_idx >= QUERY_GUARD
    THEN Min(estimated_lag_samples + refine_radius, query_start_idx - QUERY_GUARD)
    ELSE estimated_lag_samples + refine_radius

(* detect_loop_fft, lines 135-166: the fine search around the coarse lag.  *)
(* panic: the run aborts; otherwise loop_points is the Option returned.    *)
FineSearch(mono, sample_rate, search_end_idx, original_channels, best_coarse_lag, checks) ==
    LET query_start_idx == search_end_idx - query_len_samples(sample_rate)
        estimated_lag_samples == best_coarse_lag * downsample_factor(sample_rate)
        refine_radius == sample_rate * REFINE_RADIUS_SEC
        search_start == saturating_sub(estimated_lag_samples, refine_radius)
        search_end == SearchEnd(estimated_lag_samples, refine_radius, query_start_idx)
        underflow == query_start_idx < QUERY_GUARD
        fine == find_best_match_ncc_fine(QueryRaw(mono, sample_rate, search_end_idx),
                                         mono, search_start, search_end)
    IN
    IF underflow /\ checks THEN [panic |-> TRUE, underflow |-> TRUE, loop_points |-> None]
    ELSE [panic |-> FALSE, underflow |-> underflow,
          loop_points |->
             IF search_end <= search_start THEN None
             ELSE IF CorrBelowThreshold(fine[2]) THEN None
             ELSE Some(LoopPoints(search_start + fine[1], search_end_idx,
                                  original_channels, fine[2]))]

----------------------------------------------------------------------------
(* The inputs.  A track is `lead` frames of silence, `body` frames of a    *)
(* periodic pattern, and a tail; a stereo track carries each mono value v  *)
(* as the frame (v + 1, v - 1).                                            *)
ShortFrames == 8
QueryFrames == 20
MidFrames == 130
LongFrames == 1040
LeadFrames == 120
(* a sample rate at which the query is longer than the self-match margin *)
NearRate == 7

PatternBeat == <<2, 2, -2, 2, -2, -2, 2, -2, 2, 2, 2, -2>>
PatternFlat == <<2>>
PatternSwell == <<2, 1, -2, 0, 2, -1, -2, 2, 0, -2>>

MonoTrack(lead, body, pattern, tail) ==
    [i \in 1..(lead + body + Len(tail)) |->
        IF i <= lead THEN 0
        ELSE IF i <= lead + body THEN pattern[((i - lead - 1) % Len(pattern)) + 1]
        ELSE tail[i - lead - body]]

Interleave(mono, channels) ==
    IF channels = 1 THEN mono
    ELSE [i \in 1..(Len(mono) * channels) |->
            LET v == mono[((i - 1) \div channels) + 1]
                c == (i - 1) % channels
            IN IF c = 0 THEN v + 1 ELSE IF c = 1 THEN v - 1 ELSE v]

(* a track with no exact repeat: the sign changes ever faster *)
Chirp(frames, rate) == [i \in 1..frames |-> IF ((i * i) \div rate) % 2 = 0 THEN 2 ELSE -2]

(* a flat track whose opening has the opposite sign: every window the     *)
(* coarse pass may match lies in the opening                               *)
Antiphase(frames) ==
    [i \in 1..frames |->
        IF i <= frames - SELF_MATCH_MARGIN THEN (IF i % 2 = 0 THEN -2 ELSE -1) ELSE 2]

(* a quiet periodic query after a copy of itself on a constant offset:    *)
(* the copy correlates fully with the query once the means are removed,    *)
(* and weakly before                                                       *)
PatternSigns == <<2, 2, -2, 2, -2, -2, 2, 2, 2, -2, -2, 2, -2, 2, -2>>
Shifted(frames) ==
    [i \in 1..frames |->
        PatternSigns[((i - 1) % Len(PatternSigns)) + 1]
          - (IF i <= frames - query_len_samples(1) THEN 8 ELSE 0)]

(* the periodic query after a copy of itself at half the volume *)
QuietCopy(frames) ==
    [i \in 1..frames |->
        LET v == PatternSigns[((i - 1) % Len(PatternSigns)) + 1]
        IN IF i <= frames - query_len_samples(1) THEN v \div 2 ELSE v]

(* two query windows and twenty frames at `rate`: silence, then a flat     *)
(* body that starts one frame less than two query windows before the end   *)
NearRepeat(rate) ==
    MonoTrack(21, 2 * query_len_samples(rate) - 1, PatternFlat, << >>)

AudioData(mono, sample_rate, channels) ==
    [samples |-> Interleave(mono, channels), sample_rate |-> sample_rate, channels |-> channels]

FadeTail == <<1, 0, 0>>

(* a loud body and a tail that decays in steps, with a plateau (12, 12)    *)
(* and a regression of less than 10% (20, 19) on the way                   *)
PatternLoud == <<20, -20, 20, 20, -20>>
PatternUneven == <<20, 5, -20, -5>>
SteppedFade == <<19, 20, 12, 12, 6, 3, 0, 0>>

(* a buffer whose last frame is incomplete *)
WithPartialFrame(a) == [a EXCEPT !.samples = Append(@, 1)]

(* tracks on which every stage is cheap: run under every settings value *)
Tracks ==
    { AudioData(<< >>, sr, 1) : sr \in {0, 1} }
    \cup { AudioData(MonoTrack(0, ShortFrames, PatternFlat, <<0, 0>>), sr, 1) : sr \in {0, 1} }
    \cup { AudioData(MonoTrack(ShortFrames, 0, PatternFlat, << >>), 1, ch) : ch \in {1, 2} }
    \cup { AudioData(MonoTrack(0, QueryFrames, PatternBeat, tail), sr, 1) :
             sr \in {1, 2}, tail \in {<< >>, FadeTail} }
    \cup { AudioData(MonoTrack(0, MidFrames, PatternBeat, tail), 1, ch) :
             tail \in {<< >>, FadeTail}, ch \in {1, 2} }
    \cup { AudioData(MonoTrack(0, MidFrames, pattern, << >>), 1, 1) :
             pattern \in {PatternFlat, PatternSwell} }
    \cup { AudioData(MonoTrack(LeadFrames, QueryFrames + QueryFrames, PatternBeat, << >>), 1, 1) }
    \cup { AudioData(Chirp(MidFrames, rate), 1, 1) : rate \in {29, 40} }
    \cup { AudioData(Antiphase(MidFrames), 1, 1) }
    \cup { WithPartialFrame(AudioData(MonoTrack(0, ShortFrames, PatternBeat, <<0, 0>>), 1, 2)) }

(* AnalysisSettings (lib.rs lines 37-58); volumes in thousandths *)
DetectionModes == {"Auto", "LoopOnly", "FadeOutOnly"}
FadeOutModes == {"Auto", "None", "Only"}
DefaultSettings ==
    [detection_mode |-> "Auto", fade_out_mode |-> "Auto",
     fade_out_threshold_volume |-> 100, fade_out_window_size_ms |-> 50,
     min_fade_out_duration_ms |-> 1000, fade_out_buffer_ms |-> 100]
FadeProfiles ==
    { [fade_out_threshold_volume |-> DefaultSettings.fade_out_threshold_volume,
       fade_out_window_size_ms |-> DefaultSettings.fade_out_window_size_ms,
       min_fade_out_duration_ms |-> DefaultSettings.min_fade_out_duration_ms,
       fade_out_buffer_ms |-> DefaultSettings.fade_out_buffer_ms] }
    \cup { [fade_out_threshold_volume |-> 1, fade_out_window_size_ms |-> 1000,
            min_fade_out_duration_ms |-> 1000, fade_out_buffer_ms |-> b] : b \in {0, 2000} }
SettingsSet ==
    { [detection_mode |-> d, fade_out_mode |-> f,
       fade_out_threshold_volume |-> p.fade_out_threshold_volume,
       fade_out_window_size_ms |-> p.fade_out_window_size_ms,
       min_fade_out_duration_ms |-> p.min_fade_out_duration_ms,
       fade_out_buffer_ms |-> p.fade_out_buffer_ms] :
         d \in DetectionModes, f \in FadeOutModes, p \in FadeProfiles }

(* tracks run under the settings named with them: most are long enough   *)
(* for the query to start past index 1000                                  *)
LongInputs ==
    { <<AudioData(MonoTrack(0, LongFrames, PatternBeat, << >>), 1, 1), DefaultSettings>>,
      <<AudioData(MonoTrack(0, LongFrames, PatternSwell, << >>), 1, 1),
        [DefaultSettings EXCEPT !.detection_mode = "LoopOnly", !.fade_out_mode = "None"]>>,
      <<AudioData(MonoTrack(0, LongFrames, PatternFlat, << >>), 1, 1), DefaultSettings>>,
      <<AudioData(MonoTrack(0, LongFrames, PatternBeat, << >>), 1, 1),
        [DefaultSettings EXCEPT !.fade_out_mode = "Only"]>>,
      <<AudioData(MonoTrack(LeadFrames, LongFrames - LeadFrames, PatternBeat, << >>), 1, 1),
        [DefaultSettings EXCEPT !.detection_mode = "LoopOnly", !.fade_out_mode = "None"]>>,
      <<AudioData(Shifted(LongFrames), 1, 1),
        [DefaultSettings EXCEPT !.detection_mode = "LoopOnly", !.fade_out_mode = "None"]>>,
      <<AudioData(QuietCopy(LongFrames), 1, 1),
        [DefaultSettings EXCEPT !.detection_mode = "LoopOnly", !.fade_out_mode = "None"]>>,
      <<AudioData(NearRepeat(NearRate), NearRate, 1),
        [DefaultSettings EXCEPT !.detection_mode = "LoopOnly", !.fade_out_mode = "None"]>> }
    \cup { <<AudioData(MonoTrack(0, LongFrames, PatternBeat, FadeTail), 1, ch),
             [DefaultSettings EXCEPT !.fade_out_threshold_volume = 1,
                                     !.fade_out_window_size_ms = 1000,
                                     !.fade_out_buffer_ms = b]>> :
             ch \in {1, 2}, b \in {0, 2000} }

(* short tracks with a stepped fade, under settings whose window is one    *)
(* frame at these rates                                                    *)
FadeInputs ==
    { <<AudioData(MonoTrack(0, QueryFrames, pattern, SteppedFade), 1, ch),
        [DefaultSettings EXCEPT !.detection_mode = d,
                                !.fade_out_threshold_volume = v,
                                !.fade_out_window_size_ms = 1000,
                                !.min_fade_out_duration_ms = m]>> :
        pattern \in {PatternLoud, PatternUneven}, ch \in {1, 2},
        d \in {"Auto", "FadeOutOnly"}, v \in {1, 30}, m \in {1000, 8000} }

Inputs == (Tracks \X SettingsSet) \cup LongInputs \cup FadeInputs

----------------------------------------------------------------------------
(* The state of one run of run_analysis_with_progress.                     *)
VARIABLES
    audio,            \* the AudioData passed by reference
    settings,         \* the AnalysisSettings passed by reference
    overflow_checks,  \* the build: TRUE panics on integer overflow, FALSE wraps
    pc,               \* position in run_analysis_with_progress
    mono_samples,     \* local: the mono signal
    fade_out_info,    \* local: Option<FadeOutInfo>
    search_end_idx,   \* local: end of the searchable region
    best_coarse_lag,  \* local of detect_loop_fft
    loop_points,      \* the Option<LoopPoints> detect_loop_fft returned
    result,           \* the AnalysisResult being built, then returned
    progress,         \* the messages given to progress_callback, in order
    underflowed       \* an unsigned subtraction went below zero in this run

(* The state of one LoopingSource (player.rs lines 6-12) and of the loop   *)
(* that pulls samples from it.                                             *)
VARIABLES
    consumer,          \* who pulls: "play" (the output device), "export", "none"
    data,              \* LoopingSource.data: samples and channels
    src_loop_points,   \* LoopingSource.loop_points
    cursor,            \* LoopingSource.cursor
    loop_count,        \* LoopingSource.loop_count
    max_loops,         \* LoopingSource.max_loops, None means infinite
    item,              \* what the last call of next() returned
    ended,             \* next() has returned None
    samples_to_export, \* export_loop_internal: the samples collected so far
    export_fade,       \* export_loop_internal: the fade_out_info argument
    output             \* export_loop_internal: the samples after the fade step,
                       \* each with its gain num / den; None before that step

avars == <<audio, settings, overflow_checks, pc, mono_samples, fade_out_info,
           search_end_idx, best_coarse_lag, loop_points, result, progress,
           underflowed>>
pvars == <<consumer, data, src_loop_points, cursor, loop_count, max_loops, item,
           ended, samples_to_export, export_fade, output>>
(* The state of the window (gui.rs lines 87-104), of the channel between   *)
(* the worker threads and the window, and of the worker threads.           *)
VARIABLES
    app_state,          \* MyApp.state: the AppState
    analysis_settings,  \* MyApp.analysis_settings
    msg_queue,          \* the AppMessages sent and not yet received, oldest first
    threads,            \* the worker threads that still have a message to send
    frame,              \* where update() stands: "recv" (the message loop), "ui"
    spawned,            \* how many worker threads were started so far
    last_received       \* the last message received and the AppState it met

gvars == <<app_state, analysis_settings, msg_queue, threads, frame, spawned,
           last_received>>
vars == <<avars, pvars, gvars>>

(* no window is open while one analysis run or one source is followed *)
NoWindow ==
    /\ app_state = [tag |-> "Idle", data |-> None, settings |-> None, result |-> None]
    /\ analysis_settings = None
    /\ msg_queue = << >>
    /\ threads = EmptyBag
    /\ frame = "none"
    /\ spawned = 0
    /\ last_received = None

(* no LoopingSource exists while the analysis runs *)
NoSource ==
    /\ consumer = "none"
    /\ data = [samples |-> << >>, channels |-> 1]
    /\ src_loop_points = [start_sample |-> 0, end_sample |-> 0]
    /\ cursor = 0
    /\ loop_count = 0
    /\ max_loops = Some(0)
    /\ item = None
    /\ ended = FALSE
    /\ samples_to_export = << >>
    /\ export_fade = None
    /\ output = None

(* AnalysisResult::default() *)
DefaultResult == [loop_points |-> None, fade_out_info |-> None]

(* the five progress messages (lines 21, 29, 41, 134, 81) *)
MsgPre == "pre-processing"
MsgFade == "fade-out"
MsgCoarse == "coarse search"
MsgFine == "fine search"
MsgComplete == "complete"

Init ==
    /\ \E input \in Inputs : audio = input[1] /\ settings = input[2]
    /\ overflow_checks \in BOOLEAN
    /\ pc = "start"
    /\ mono_samples = << >>
    /\ fade_out_info = None
    /\ search_end_idx = 0
    /\ best_coarse_lag = None
    /\ loop_points = None
    /\ result = DefaultResult
    /\ progress = << >>
    /\ underflowed = FALSE
    /\ NoSource
    /\ NoWindow

(* lines 19-26 *)
Preprocess ==
    /\ pc = "start"
    /\ result' = DefaultResult
    /\ progress' = Append(progress, MsgPre)
    /\ mono_samples' = mix_to_mono(audio)
    /\ pc' = "fade"
    /\ UNCHANGED <<audio, settings, overflow_checks, fade_out_info, search_end_idx,
                   best_coarse_lag, loop_points, underflowed>>
    /\ UNCHANGED <<pvars, gvars>>

(* the fade-out detector run whatever the mode *)
FadeStageAnyMode(mono, sample_rate, channels, s) ==
    detect_fade_out(mono, sample_rate, channels, s)

(* lines 30-34 *)
FadeStage(mono, sample_rate, channels, s) ==
    IF s.fade_out_mode = "None" THEN None
    ELSE detect_fade_out(mono, sample_rate, channels, s)

(* lines 28-35 *)
DetectFadeOut ==
    /\ pc = "fade"
    /\ progress' = Append(progress, MsgFade)
    /\ fade_out_info' = FadeStage(mono_samples, audio.sample_rate, audio.channels, settings)
    /\ result' = [result EXCEPT !.fade_out_info = fade_out_info']
    /\ pc' = "loop"
    /\ UNCHANGED <<audio, settings, overflow_checks, mono_samples, search_end_idx,
                   best_coarse_lag, loop_points, underflowed>>
    /\ UNCHANGED <<pvars, gvars>>

(* line 39: DetectionMode::FadeOutOnly => {} *)
SkipLoopSearch ==
    /\ pc = "loop"
    /\ settings.detection_mode = "FadeOutOnly"
    /\ pc' = "complete"
    /\ UNCHANGED <<audio, settings, overflow_checks, mono_samples, fade_out_info,
                   search_end_idx, best_coarse_lag, loop_points, result, progress,
                   underflowed>>
    /\ UNCHANGED <<pvars, gvars>>

(* the searchable region found by trimming silence only, whatever the fade *)
SearchEndIdxIgnoringFade(mono, fo, sample_rate, channels, s) ==
    find_effective_end(mono, <<SILENCE_THRESHOLD, 1>>)

(* the fade start taken as the end of the region, the buffer forgotten *)
SearchEndIdxWithoutBuffer(mono, fo, sample_rate, channels, s) ==
    IF IsSome(fo)
    THEN Unwrap(fo).start_sample \div channels
    ELSE find_effective_end(mono, <<SILENCE_THRESHOLD, 1>>)

(* lines 44-55: the end of the searchable region, in mono frames *)
SearchEndIdx(mono, fo, sample_rate, channels, s) ==
    IF IsSome(fo)
    THEN saturating_sub(Unwrap(fo).start_sample \div channels,
                        MsToSamples(s.fade_out_buffer_ms, sample_rate))
    ELSE find_effective_end(mono, <<SILENCE_THRESHOLD, 1>>)

(* line 57 *)
TooShortToLoop(end_idx, sample_rate) == end_idx < sample_rate * MIN_LOOP_DURATION_SEC

(* lines 40-59 *)
BeginLoopSearch ==
    /\ pc = "loop"
    /\ settings.detection_mode \in {"LoopOnly", "Auto"}
    /\ progress' = Append(progress, MsgCoarse)
    /\ search_end_idx' = SearchEndIdx(mono_samples, fade_out_info, audio.sample_rate,
                                      audio.channels, settings)
    /\ pc' = IF TooShortToLoop(search_end_idx', audio.sample_rate) THEN "complete" ELSE "coarse"
    /\ UNCHANGED <<audio, settings, overflow_checks, mono_samples, fade_out_info,
                   best_coarse_lag, loop_points, result, underflowed>>
    /\ UNCHANGED <<pvars, gvars>>

(* detect_loop_fft lines 116-131 *)
CoarseStage ==
    /\ pc = "coarse"
    /\ IF search_end_idx < query_len_samples(audio.sample_rate) * 2
       THEN /\ pc' = "complete"
            /\ UNCHANGED <<best_coarse_lag, underflowed>>
       ELSE \E r \in {CoarseSearch(mono_samples, audio.sample_rate, search_end_idx,
                                    overflow_checks)} :
               /\ underflowed' = (underflowed \/ r.underflow)
               /\ best_coarse_lag' = r.lag
               /\ pc' = IF r.panic THEN "panicked"
                        ELSE IF IsSome(r.lag) THEN "fine" ELSE "complete"
    /\ UNCHANGED <<audio, settings, overflow_checks, mono_samples, fade_out_info,
                   search_end_idx, loop_points, result, progress>>
    /\ UNCHANGED <<pvars, gvars>>

(* detect_loop_fft lines 134-166 *)
FineStage ==
    /\ pc = "fine"
    /\ progress' = Append(progress, MsgFine)
    /\ \E r \in {FineSearch(mono_samples, audio.sample_rate, search_end_idx, audio.channels,
                            Unwrap(best_coarse_lag), overflow_checks)} :
          /\ underflowed' = (underflowed \/ r.underflow)
          /\ loop_points' = r.loop_points
          /\ pc' = IF r.panic THEN "panicked"
                   ELSE IF IsSome(r.loop_points) THEN "post" ELSE "complete"
    /\ UNCHANGED <<audio, settings, overflow_checks, mono_samples, fade_out_info,
                   search_end_idx, best_coarse_lag, result>>
    /\ UNCHANGED <<pvars, gvars>>

(* lines 71-74: the loop end never exceeds the searchable region *)
ClampEnd(lp, end_idx, channels) ==
    IF lp.end_sample > end_idx * channels
    THEN [lp EXCEPT !.end_sample = end_idx * channels]
    ELSE lp

(* the result rebuilt around the loop points, the fade-out part lost *)
StoreLoopPointsOnly(res, lp) == [loop_points |-> Some(lp), fade_out_info |-> None]

(* line 75 *)
StoreLoopPoints(res, lp) == [res EXCEPT !.loop_points = Some(lp)]

(* lines 69-76 *)
PostProcess ==
    /\ pc = "post"
    /\ result' = StoreLoopPoints(result, ClampEnd(Unwrap(loop_points), search_end_idx,
                                                  audio.channels))
    /\ pc' = "complete"
    /\ UNCHANGED <<audio, settings, overflow_checks, mono_samples, fade_out_info,
                   search_end_idx, best_coarse_lag, loop_points, progress, underflowed>>
    /\ UNCHANGED <<pvars, gvars>>

(* lines 81-82 *)
Complete ==
    /\ pc = "complete"
    /\ progress' = Append(progress, MsgComplete)
    /\ pc' = "done"
    /\ UNCHANGED <<audio, settings, overflow_checks, mono_samples, fade_out_info,
                   search_end_idx, best_coarse_lag, loop_points, result, underflowed>>
    /\ UNCHANGED <<pvars, gvars>>

Next ==
    \/ Preprocess
    \/ DetectFadeOut
    \/ SkipLoopSearch
    \/ BeginLoopSearch
    \/ CoarseStage
    \/ FineStage
    \/ PostProcess
    \/ Complete

Spec == Init /\ [][Next]_vars

----------------------------------------------------------------------------
(* The looping sample source (player.rs) and its two consumers: the audio  *)
(* output, which pulls for as long as it plays, and export_loop_internal,  *)
(* whose `for sample in source` pulls until next() returns None.           *)
MaxSamples == 4
MaxLoops == 2
(* next() is followed while loop_count is below this when max_loops is     *)
(* None (loop_count is a u32 and does not reach its limit here)            *)
LoopCap == 3

(* max_loops = None taken as no looping at all *)
ShouldLoopOnlyWhenBounded(max, count) == IsSome(max) /\ count < Unwrap(max)

(* one loop too many: the limit compared with <= *)
ShouldLoopInclusive(max, count) == IF IsSome(max) THEN count <= Unwrap(max) ELSE TRUE

(* player.rs lines 38-41 *)
ShouldLoop(max, count) == IF IsSome(max) THEN count < Unwrap(max) ELSE TRUE

(* the jump taken one sample late: > in place of >= *)
JumpsBackPastEnd(advanced, points, channels, should_loop) ==
    /\ should_loop
    /\ advanced > points.end_sample
    /\ advanced % channels = 0

(* the jump taken without the frame-boundary test *)
JumpsBackUnaligned(advanced, points, channels, should_loop) ==
    /\ should_loop
    /\ advanced >= points.end_sample

(* player.rs lines 43-53, with the cursor already advanced *)
JumpsBack(advanced, points, channels, should_loop) ==
    /\ should_loop
    /\ advanced >= points.end_sample
    /\ advanced % channels = 0

(* LoopingSource::next (player.rs lines 29-56): the new cursor and         *)
(* loop_count, and the item returned                                       *)
LoopingSource_next(d, points, cur, count, max) ==
    IF cur >= Len(d.samples)
    THEN [cursor |-> cur, loop_count |-> count, item |-> None]
    ELSE LET jump == JumpsBack(cur + 1, points, d.channels, ShouldLoop(max, count))
         IN [cursor |-> IF jump THEN points.start_sample ELSE cur + 1,
             loop_count |-> IF jump THEN count + 1 ELSE count,
             item |-> Some(At(d.samples, cur))]

(* the fade_out_info given to export_loop_internal: none, or a fade inside *)
(* a buffer of len samples                                                 *)
FadeArgs(len) ==
    {None} \cup { Some([start_sample |-> w[1], duration_samples |-> w[2],
                         confidence |-> FADE_CONFIDENCE]) :
                    w \in {v \in (0..len) \X (1..len) : v[1] + v[2] <= len} }

(* LoopingSource::new (player.rs lines 15-23) over every small buffer,     *)
(* every pair of loop points (also degenerate ones) and loop limit         *)
PlayerInit ==
    /\ consumer \in {"play", "export"}
    /\ \E len \in 0..MaxSamples, ch \in {1, 2} :
          data = [samples |-> [i \in 1..len |-> i], channels |-> ch]
    /\ src_loop_points \in [start_sample : 0..(MaxSamples + 1), end_sample : 0..(MaxSamples + 1)]
    /\ max_loops \in {None} \cup {Some(n) : n \in 0..MaxLoops}
    /\ consumer = "export" => IsSome(max_loops)
    /\ cursor = 0
    /\ loop_count = 0
    /\ item = None
    /\ ended = FALSE
    /\ samples_to_export = << >>
    /\ export_fade \in IF consumer = "export" THEN FadeArgs(Len(data.samples)) ELSE {None}
    /\ output = None
    /\ audio = AudioData(<< >>, 0, 1)
    /\ settings = DefaultSettings
    /\ overflow_checks = FALSE
    /\ pc = "idle"
    /\ mono_samples = << >>
    /\ fade_out_info = None
    /\ search_end_idx = 0
    /\ best_coarse_lag = None
    /\ loop_points = None
    /\ result = DefaultResult
    /\ progress = << >>
    /\ underflowed = FALSE
    /\ NoWindow

(* the output device pulls one sample *)
PlayPull ==
    /\ consumer = "play"
    /\ IsSome(max_loops) \/ loop_count < LoopCap
    /\ \E r \in {LoopingSource_next(data, src_loop_points, cursor, loop_count, max_loops)} :
          /\ cursor' = r.cursor
          /\ loop_count' = r.loop_count
          /\ item' = r.item
          /\ ended' = (ended \/ r.item = None)
    /\ UNCHANGED <<consumer, data, src_loop_points, max_loops, samples_to_export,
                   export_fade, output>>
    /\ UNCHANGED <<avars, gvars>>

(* export.rs lines 23-25: one turn of `for sample in source { push }` *)
ExportPull ==
    /\ consumer = "export"
    /\ ~ended
    /\ \E r \in {LoopingSource_next(data, src_loop_points, cursor, loop_count, max_loops)} :
          /\ cursor' = r.cursor
          /\ loop_count' = r.loop_count
          /\ item' = r.item
          /\ ended' = (r.item = None)
          /\ samples_to_export' = IF IsSome(r.item)
                                  THEN Append(samples_to_export, Unwrap(r.item))
                                  ELSE samples_to_export
    /\ UNCHANGED <<consumer, data, src_loop_points, max_loops, export_fade, output>>
    /\ UNCHANGED <<avars, gvars>>

(* export.rs lines 27-39: the last duration_samples collected samples are  *)
(* scaled by 1 - relative_index / duration_samples (within [0, 1] there,   *)
(* so the clamp does not act); the others keep gain 1                      *)
apply_fade_out(collected, fade) ==
    IF fade = None
    THEN [i \in 1..Len(collected) |-> [sample |-> collected[i], num |-> 1, den |-> 1]]
    ELSE LET duration_samples == Unwrap(fade).duration_samples
             fade_start_in_exported_samples == saturating_sub(Len(collected), duration_samples)
         IN [i \in 1..Len(collected) |->
               IF i - 1 >= fade_start_in_exported_samples
               THEN [sample |-> collected[i],
                     num |-> duration_samples - (i - 1 - fade_start_in_exported_samples),
                     den |-> duration_samples]
               ELSE [sample |-> collected[i], num |-> 1, den |-> 1]]

(* export.rs lines 27-39, after the pull loop has ended *)
ExportFade ==
    /\ consumer = "export"
    /\ ended
    /\ output = None
    /\ output' = Some(apply_fade_out(samples_to_export, export_fade))
    /\ UNCHANGED <<consumer, data, src_loop_points, cursor, loop_count, max_loops, item,
                   ended, samples_to_export, export_fade>>
    /\ UNCHANGED <<avars, gvars>>

PlayerNext ==
    \/ PlayPull
    \/ ExportPull
    \/ ExportFade

PlayerSpec == PlayerInit /\ [][PlayerNext]_vars

(* a consumer that is pulling keeps pulling *)
PlayerFairSpec == PlayerSpec /\ WF_vars(PlayerNext)

----------------------------------------------------------------------------
(* The window (gui.rs).  The window thread runs update() once per frame:   *)
(* it receives the messages waiting in the channel, then draws the frame   *)
(* and acts on what the user did.  Worker threads load a file, run the     *)
(* analysis or export, and report through the channel.  A decoded file is  *)
(* named by its path, and an AnalysisResult by the data and settings       *)
(* run_analysis was called with.                                           *)
MaxThreads == 3

ReadablePaths == {"a.wav", "b.wav"}
Paths == ReadablePaths \cup {"missing.wav"}
(* audio::load_audio_file: Ok(data) or Err *)
load_audio_file(path) == IF path \in ReadablePaths THEN Some(path) ELSE None
(* the values the settings panel switches between *)
SettingsValues == {DefaultSettings, [DefaultSettings EXCEPT !.detection_mode = "LoopOnly"]}
run_analysis(audio_data, with_settings) == [of |-> audio_data, with |-> with_settings]

(* enum AppState (lines 69-78) *)
AppState(tag, audio_data, with_settings, analysis_result) ==
    [tag |-> tag, data |-> audio_data, settings |-> with_settings, result |-> analysis_result]
Idle == AppState("Idle", None, None, None)
Loading == AppState("Loading", None, None, None)
Analyzing(audio_data, with_settings) ==
    AppState("Analyzing", Some(audio_data), Some(with_settings), None)
Ready(audio_data, analysis_result) ==
    AppState("Ready", Some(audio_data), None, Some(analysis_result))
ErrorState == AppState("Error", None, None, None)
Exporting == AppState("Exporting", None, None, None)
ExportSuccess == AppState("ExportSuccess", None, None, None)
ExportError == AppState("ExportError", None, None, None)

(* enum AppMessage (lines 80-85) *)
AppMessage(tag, audio_data, analysis_result, ok) ==
    [tag |-> tag, data |-> audio_data, result |-> analysis_result, ok |-> ok]
Loaded(audio_data) == AppMessage("Loaded", Some(audio_data), None, TRUE)
Analyzed(analysis_result) == AppMessage("Analyzed", None, Some(analysis_result), TRUE)
ErrorMessage == AppMessage("Error", None, None, FALSE)
ExportFinished(ok) == AppMessage("ExportFinished", None, None, ok)

(* the closures given to thread::spawn, with what they captured *)
Thread(kind, step, path, audio_data, with_settings) ==
    [kind |-> kind, step |-> step, path |-> path, data |-> audio_data,
     settings |-> with_settings]
LoaderThread(path, with_settings) ==
    Thread("loader", "load", Some(path), None, Some(with_settings))
AnalysisThread(audio_data, with_settings) ==
    Thread("analysis", "analyze", None, Some(audio_data), Some(with_settings))
ExportThread(audio_data) ==
    Thread("export", "export", None, Some(audio_data), None)
(* the threads are kept as a bag: two threads may have captured the same   *)
(* values                                                                  *)
Spawn(running, t) == running (+) SetToBag({t})
Exit(running, t) == running (-) SetToBag({t})

(* no analysis run and no source is followed while the window is *)
NoRun ==
    /\ audio = AudioData(<< >>, 0, 1)
    /\ settings = DefaultSettings
    /\ overflow_checks = FALSE
    /\ pc = "idle"
    /\ mono_samples = << >>
    /\ fade_out_info = None
    /\ search_end_idx = 0
    /\ best_coarse_lag = None
    /\ loop_points = None
    /\ result = DefaultResult
    /\ progress = << >>
    /\ underflowed = FALSE

(* MyApp::new (lines 107-143), with or without an initial file *)
GuiInit ==
    /\ analysis_settings = DefaultSettings
    /\ msg_queue = << >>
    /\ frame = "recv"
    /\ last_received = None
    /\ \/ /\ app_state = Idle
          /\ threads = EmptyBag
          /\ spawned = 0
       \/ \E path \in Paths :
             /\ app_state = Loading
             /\ threads = SetToBag({LoaderThread(path, DefaultSettings)})
             /\ spawned = 1
    /\ NoRun
    /\ NoSource

(* the head of the channel is received by `try_recv` (line 499) *)
Receiving(tag) ==
    /\ frame = "recv"
    /\ msg_queue # << >>
    /\ Head(msg_queue).tag = tag
    /\ msg_queue' = Tail(msg_queue)
    /\ last_received' = Some([msg |-> Head(msg_queue), met |-> app_state])

(* AppMessage::Loaded (lines 501-518): trigger_analysis (lines 146-159)    *)
(* records the current settings and starts an analysis thread              *)
ReceiveLoaded ==
    /\ Receiving("Loaded")
    /\ app_state' = Analyzing(Unwrap(Head(msg_queue).data), analysis_settings)
    /\ threads' = Spawn(threads, AnalysisThread(Unwrap(Head(msg_queue).data),
                                                 analysis_settings))
    /\ spawned' = spawned + 1
    /\ UNCHANGED <<analysis_settings, frame>>
    /\ UNCHANGED <<avars, pvars>>

(* an Analyzed message adopted whenever audio data is at hand *)
OnAnalyzedAlsoWhenReady(state, analysis_result) ==
    IF state.tag \in {"Analyzing", "Ready"}
    THEN Ready(Unwrap(state.data), analysis_result)
    ELSE state

(* the match of lines 520-528 *)
OnAnalyzed(state, analysis_result) ==
    IF state.tag = "Analyzing"
    THEN Ready(Unwrap(state.data), analysis_result)
    ELSE state

(* AppMessage::Analyzed (lines 519-529); after adopting the result         *)
(* update() returns, and the next frame goes on receiving                  *)
ReceiveAnalyzed ==
    /\ Receiving("Analyzed")
    /\ app_state' = OnAnalyzed(app_state, Unwrap(Head(msg_queue).result))
    /\ UNCHANGED <<analysis_settings, threads, frame, spawned>>
    /\ UNCHANGED <<avars, pvars>>

(* AppMessage::Error (lines 530-532) *)
ReceiveError ==
    /\ Receiving("Error")
    /\ app_state' = ErrorState
    /\ UNCHANGED <<analysis_settings, threads, frame, spawned>>
    /\ UNCHANGED <<avars, pvars>>

(* AppMessage::ExportFinished (lines 533-538) *)
ReceiveExportFinished ==
    /\ Receiving("ExportFinished")
    /\ app_state' = IF Head(msg_queue).ok THEN ExportSuccess ELSE ExportError
    /\ UNCHANGED <<analysis_settings, threads, frame, spawned>>
    /\ UNCHANGED <<avars, pvars>>

(* `try_recv` finds the channel empty: the frame is drawn (line 542) *)
EndOfMessages ==
    /\ frame = "recv"
    /\ msg_queue = << >>
    /\ frame' = "ui"
    /\ UNCHANGED <<app_state, analysis_settings, msg_queue, threads, spawned, last_received>>
    /\ UNCHANGED <<avars, pvars>>

(* a frame in which the user does nothing that changes the state *)
UiNothing ==
    /\ frame = "ui"
    /\ frame' = "recv"
    /\ UNCHANGED <<app_state, analysis_settings, msg_queue, threads, spawned, last_received>>
    /\ UNCHANGED <<avars, pvars>>

(* a file is opened or dropped (lines 564-571, 649-655):                   *)
(* load_file_native (lines 162-191) in whatever state the window is        *)
UiLoadFile ==
    /\ frame = "ui"
    /\ spawned < MaxThreads
    /\ \E path \in Paths :
          threads' = Spawn(threads, LoaderThread(path, analysis_settings))
    /\ app_state' = Loading
    /\ spawned' = spawned + 1
    /\ frame' = "recv"
    /\ UNCHANGED <<analysis_settings, msg_queue, last_received>>
    /\ UNCHANGED <<avars, pvars>>

(* a control of the settings panel, drawn in the Ready state only, changes *)
(* a setting (lines 606-626): the analysis is triggered again (687-694)    *)
UiChangeSettings ==
    /\ frame = "ui"
    /\ spawned < MaxThreads
    /\ app_state.tag = "Ready"
    /\ \E changed \in SettingsValues \ {analysis_settings} :
          /\ analysis_settings' = changed
          /\ app_state' = Analyzing(Unwrap(app_state.data), changed)
          /\ threads' = Spawn(threads, AnalysisThread(Unwrap(app_state.data), changed))
    /\ spawned' = spawned + 1
    /\ frame' = "recv"
    /\ UNCHANGED <<msg_queue, last_received>>
    /\ UNCHANGED <<avars, pvars>>

(* the re-analyze button (line 629) with the settings as they are *)
UiReAnalyze ==
    /\ frame = "ui"
    /\ spawned < MaxThreads
    /\ app_state.tag = "Ready"
    /\ app_state' = Analyzing(Unwrap(app_state.data), analysis_settings)
    /\ threads' = Spawn(threads, AnalysisThread(Unwrap(app_state.data), analysis_settings))
    /\ spawned' = spawned + 1
    /\ frame' = "recv"
    /\ UNCHANGED <<analysis_settings, msg_queue, last_received>>
    /\ UNCHANGED <<avars, pvars>>

(* export_file (lines 255-275) once a target was chosen *)
UiExport ==
    /\ frame = "ui"
    /\ spawned < MaxThreads
    /\ app_state.tag = "Ready"
    /\ app_state' = Exporting
    /\ threads' = Spawn(threads, ExportThread(Unwrap(app_state.data)))
    /\ spawned' = spawned + 1
    /\ frame' = "recv"
    /\ UNCHANGED <<analysis_settings, msg_queue, last_received>>
    /\ UNCHANGED <<avars, pvars>>

(* a worker's `sender.send(..)`: the channel is unbounded and keeps the    *)
(* order of the sends                                                      *)
Send(msg) ==
    /\ msg_queue' = Append(msg_queue, msg)
    /\ UNCHANGED <<app_state, analysis_settings, frame, spawned, last_received>>
    /\ UNCHANGED <<avars, pvars>>

(* the loader thread (lines 172-190): the file is read, and Loaded or      *)
(* Error is sent                                                           *)
LoaderLoads ==
    \E t \in BagToSet(threads) :
       /\ t.kind = "loader" /\ t.step = "load"
       /\ \E loaded \in {load_audio_file(Unwrap(t.path))} :
             IF IsSome(loaded)
             THEN /\ Send(Loaded(Unwrap(loaded)))
                  /\ threads' = Spawn(Exit(threads, t),
                                      [t EXCEPT !.step = "analyze", !.data = loaded])
             ELSE /\ Send(ErrorMessage)
                  /\ threads' = Exit(threads, t)

(* run_analysis returns in the loader thread (lines 180-181) or in an      *)
(* analysis thread (lines 155-156), and Analyzed is sent                   *)
WorkerAnalyzes ==
    \E t \in BagToSet(threads) :
       /\ t.step = "analyze"
       /\ Send(Analyzed(run_analysis(Unwrap(t.data), Unwrap(t.settings))))
       /\ threads' = Exit(threads, t)

(* the export thread (lines 271-275) *)
WorkerExports ==
    \E t \in BagToSet(threads) :
       /\ t.kind = "export"
       /\ \E ok \in BOOLEAN : Send(ExportFinished(ok))
       /\ threads' = Exit(threads, t)

GuiNext ==
    \/ ReceiveLoaded
    \/ ReceiveAnalyzed
    \/ ReceiveError
    \/ ReceiveExportFinished
    \/ EndOfMessages
    \/ UiNothing
    \/ UiLoadFile
    \/ UiChangeSettings
    \/ UiReAnalyze
    \/ UiExport
    \/ LoaderLoads
    \/ WorkerAnalyzes
    \/ WorkerExports

GuiSpec == GuiInit /\ [][GuiNext]_vars

----------------------------------------------------------------------------
(* Properties of the analysis run (Spec)                                   *)

Returned == pc = "done"
BothDetected == Returned /\ IsSome(result.loop_points) /\ IsSome(result.fade_out_info)

(* C1: whenever the run returns loop points, they satisfy                  *)
(* 0 <= start_sample < end_sample <= len(audio.samples).                   *)
C1_LoopPointsInBounds ==
    Returned /\ IsSome(result.loop_points) =>
        LET lp == Unwrap(result.loop_points)
        IN /\ 0 <= lp.start_sample
           /\ lp.start_sample < lp.end_sample
           /\ lp.end_sample <= Len(audio.samples)

(* a stereo run of the checked build that returns a loop and a fade-out *)
C1_Witness ==
    /\ BothDetected
    /\ overflow_checks
    /\ audio.channels = 2

(* C2 as stated: whenever both are returned, the loop end is strictly      *)
(* before the fade-out start, for every fade_out_buffer_ms.                *)
C2_LoopEndStrictlyBeforeFade ==
    BothDetected =>
        Unwrap(result.loop_points).end_sample < Unwrap(result.fade_out_info).start_sample

(* C2 amended: whenever both are returned, the loop end is at or before    *)
(* the fade-out start, and strictly before it when fade_out_buffer_ms      *)
(* converts to at least one frame.                                         *)
C2_LoopEndNotAfterFade ==
    BothDetected =>
        LET lp == Unwrap(result.loop_points)
            fo == Unwrap(result.fade_out_info)
        IN /\ lp.end_sample <= fo.start_sample
           /\ (settings.fade_out_buffer_ms * audio.sample_rate) \div 1000 >= 1
                 => lp.end_sample < fo.start_sample

(* both returned by the checked build, with a buffer of two frames *)
C2_Witness ==
    /\ BothDetected
    /\ overflow_checks
    /\ (settings.fade_out_buffer_ms * audio.sample_rate) \div 1000 >= 1

(* C3: the run never aborts and no unsigned subtraction underflows, for    *)
(* every buffer, sample rate and settings value.                           *)
C3_NeverAbortsNorUnderflows == pc # "panicked" /\ ~underflowed

(* C4: a stage runs only if the mode asks for it: no fade-out result under *)
(* fade_out_mode None; under FadeOutOnly no loop points and no coarse or   *)
(* fine search step.                                                       *)
C4_StagesOnlyWhenRequested ==
    /\ settings.fade_out_mode = "None" =>
          fade_out_info = None /\ result.fade_out_info = None
    /\ settings.detection_mode = "FadeOutOnly" =>
          /\ result.loop_points = None
          /\ pc \notin {"coarse", "fine", "post"}
          /\ \A i \in 1..Len(progress) : progress[i] \notin {MsgCoarse, MsgFine}
          /\ best_coarse_lag = None /\ loop_points = None

(* a FadeOutOnly run over a track long enough to search, that found a fade *)
C4_Witness ==
    /\ Returned
    /\ settings.detection_mode = "FadeOutOnly"
    /\ IsSome(result.fade_out_info)
    /\ Len(mono_samples) >= MidFrames

(* C5: once the fade-out stage has run, result.fade_out_info is what       *)
(* detect_fade_out gives for the mono signal and the settings              *)
(* (fade_out_mode not None) at every later step and in the returned        *)
(* result, whatever the loop search did and whatever the detection mode.   *)
C5_FadeOutUntouchedByLoopSearch ==
    /\ pc \in {"loop", "coarse", "fine", "post", "complete", "done", "panicked"}
    /\ settings.fade_out_mode # "None"
    => result.fade_out_info =
          detect_fade_out(mix_to_mono(audio), audio.sample_rate, audio.channels, settings)

(* a loop search that ran and failed, beside a detected fade-out *)
C5_Witness ==
    /\ Returned
    /\ settings.detection_mode # "FadeOutOnly"
    /\ result.loop_points = None
    /\ IsSome(result.fade_out_info)

MilestoneRank(msg) ==
    IF msg = MsgPre THEN 1
    ELSE IF msg = MsgFade THEN 2
    ELSE IF msg = MsgCoarse THEN 3
    ELSE IF msg = MsgFine THEN 4
    ELSE 5

(* C6: the progress hook is called in milestone order, each milestone at   *)
(* most once, the fine one only after the coarse search returned a lag,    *)
(* and `complete` exactly once as the last call on every path.             *)
C6_ProgressInOrderEndingComplete ==
    /\ \A i, j \in 1..Len(progress) :
          i < j => MilestoneRank(progress[i]) < MilestoneRank(progress[j])
    /\ (\E i \in 1..Len(progress) : progress[i] = MsgFine) => IsSome(best_coarse_lag)
    /\ pc \in {"done", "panicked"} =>
          Len(progress) >= 1 /\ progress[Len(progress)] = MsgComplete

(* the positions at which an action of Next is enabled: each action is     *)
(* guarded by its position alone, the two at "loop" by complementary modes *)
StepPositions == {"start", "fade", "loop", "coarse", "fine", "post", "complete"}

(* C7: a run always completes once started: it never stops anywhere but at *)
(* Done, where it returns the result.                                      *)
C7_RunReachesDone == pc = "done" \/ pc \in StepPositions

----------------------------------------------------------------------------
(* Properties of the looping source (PlayerSpec, PlayerFairSpec)           *)

(* what the claim C9 says of one call of next() *)
C9_JumpRule ==
    LET advanced == cursor + 1
        allowed == max_loops = None \/ loop_count < Unwrap(max_loops)
    IN IF allowed /\ advanced >= src_loop_points.end_sample /\ advanced % data.channels = 0
       THEN cursor' = src_loop_points.start_sample /\ loop_count' = loop_count + 1
       ELSE cursor' = advanced /\ loop_count' = loop_count

(* C9 as stated: every call of next() either jumps back (looping allowed,  *)
(* advanced cursor >= end_sample, on a frame boundary) and counts one      *)
(* loop, or advances the cursor by exactly 1.                              *)
C9_EveryCallJumpsOrAdvances == [][C9_JumpRule]_vars

(* C9 amended: a call of next() on an exhausted source (cursor >=          *)
(* len(samples)) returns None and changes neither cursor nor loop_count;   *)
(* every other call jumps back and counts one loop if and only if looping  *)
(* is allowed, the advanced cursor is >= end_sample and on a frame         *)
(* boundary, and otherwise advances the cursor by exactly 1.               *)
C9_JumpOnlyOnFrameBoundary ==
    [][IF cursor >= Len(data.samples)
       THEN cursor' = cursor /\ loop_count' = loop_count /\ item' = None
       ELSE C9_JumpRule /\ item' = Some(data.samples[cursor + 1])]_vars

(* a stereo source that passed an odd end_sample and jumped back at the    *)
(* next frame boundary                                                     *)
C9_Witness ==
    /\ data.channels = 2
    /\ src_loop_points.end_sample % 2 = 1
    /\ loop_count = 1
    /\ cursor = src_loop_points.start_sample
    /\ item = Some(src_loop_points.end_sample + 1)

(* C10: with max_loops = Some(n), for any loop points, loop_count never    *)
(* exceeds n, no jump back happens once loop_count = n, and next()         *)
(* eventually returns None.                                                *)
C10_BoundedLoopsThenEnd ==
    /\ [](IsSome(max_loops) => loop_count <= Unwrap(max_loops))
    /\ [][IsSome(max_loops) /\ loop_count = Unwrap(max_loops) =>
             loop_count' = loop_count /\ cursor' \in {cursor, cursor + 1}]_vars
    /\ (IsSome(max_loops) => <>ended)

(* an export over degenerate loop points that used all its loops and ended *)
C10_Witness ==
    /\ consumer = "export"
    /\ ended
    /\ IsSome(max_loops)
    /\ loop_count = Unwrap(max_loops)
    /\ loop_count >= 1
    /\ src_loop_points.start_sample >= src_loop_points.end_sample

(* loop points inside the buffer, the end on a frame boundary *)
WellFormedLoop ==
    /\ src_loop_points.start_sample < src_loop_points.end_sample
    /\ src_loop_points.end_sample <= Len(data.samples)
    /\ src_loop_points.end_sample % data.channels = 0

RECURSIVE Repeat(_, _)
Repeat(s, n) == IF n = 0 THEN << >> ELSE s \o Repeat(s, n - 1)

(* samples[0..end) then n times samples[start..end) then samples[end..len) *)
ExpectedSequence(n) ==
    Slice(data.samples, 0, src_loop_points.end_sample)
    \o Repeat(Slice(data.samples, src_loop_points.start_sample, src_loop_points.end_sample), n)
    \o Slice(data.samples, src_loop_points.end_sample, Len(data.samples))

IsPrefix(s, t) == Len(s) <= Len(t) /\ \A i \in 1..Len(s) : s[i] = t[i]

(* C11: with max_loops = Some(n) and well-formed loop points, the samples  *)
(* collected from the source are at every moment a prefix of, and once     *)
(* next() returned None exactly, samples[0..end) followed by n times       *)
(* samples[start..end) followed by samples[end..len).                      *)
C11_EmitsPreLoopThenLoops ==
    consumer = "export" /\ IsSome(max_loops) /\ WellFormedLoop =>
        /\ IsPrefix(samples_to_export, ExpectedSequence(Unwrap(max_loops)))
        /\ ended => samples_to_export = ExpectedSequence(Unwrap(max_loops))

(* a finished stereo export of two loops over a body inside the track *)
C11_Witness ==
    /\ consumer = "export" /\ ended /\ WellFormedLoop
    /\ max_loops = Some(MaxLoops)
    /\ data.channels = 2
    /\ src_loop_points.start_sample > 0
    /\ src_loop_points.end_sample < Len(data.samples)
    /\ Len(samples_to_export) > Len(data.samples)

(* C12: with max_loops = None and well-formed loop points, next() never    *)
(* returns None, every emitted sample has an index below end_sample, and   *)
(* between calls the cursor is below end_sample.                           *)
C12_UnboundedNeverEnds ==
    max_loops = None /\ WellFormedLoop =>
        /\ ~ended
        /\ cursor < src_loop_points.end_sample
        /\ cursor > 0 \/ loop_count > 0 => IsSome(item)
        /\ IsSome(item) => Unwrap(item) <= src_loop_points.end_sample

(* an unbounded stereo source that has jumped back several times over a    *)
(* body ending before the end of the track                                 *)
C12_Witness ==
    /\ max_loops = None /\ WellFormedLoop
    /\ data.channels = 2
    /\ loop_count = LoopCap
    /\ src_loop_points.end_sample < Len(data.samples)
    /\ IsSome(item)

(* C13: in an export with a fade-out (loop points well formed and ending   *)
(* at or before the fade start), the output samples that come from the     *)
(* original positions start_sample .. start_sample + duration_samples      *)
(* carry the linear ramp 1 - (position - start_sample) / duration_samples, *)
(* and every other output sample is unchanged.                             *)
C13_RampOverTheDetectedFade ==
    /\ consumer = "export" /\ IsSome(output) /\ IsSome(export_fade) /\ WellFormedLoop
    /\ src_loop_points.end_sample <= Unwrap(export_fade).start_sample
    => LET fo == Unwrap(export_fade)
           out == Unwrap(output)
       IN \A k \in 1..Len(out) :
             LET position == out[k].sample - 1
             IN IF position >= fo.start_sample
                   /\ position < fo.start_sample + fo.duration_samples
                THEN out[k].num * fo.duration_samples
                        = (fo.duration_samples - (position - fo.start_sample)) * out[k].den
                ELSE out[k].num = out[k].den

----------------------------------------------------------------------------
(* Properties of the pure stages, on the runs of Spec that apply them      *)

(* mix_to_mono has run *)
Mixed == pc \notin {"start", "idle"}

(* C14: downmixing yields len(samples) / channels mono samples, the i-th   *)
(* the arithmetic mean of samples[i*channels .. (i+1)*channels); for       *)
(* channels = 1 the mono signal is the input.                              *)
C14_MonoIsFrameMean ==
    Mixed =>
        /\ Len(mono_samples) = Len(audio.samples) \div audio.channels
        /\ \A i \in 0..(Len(mono_samples) - 1) :
              At(mono_samples, i) * audio.channels
                 = SumRange(audio.samples, i * audio.channels, (i + 1) * audio.channels)
        /\ audio.channels = 1 => mono_samples = audio.samples

(* a stereo buffer with an incomplete last frame, mixed down *)
C14_Witness ==
    /\ Mixed
    /\ audio.channels = 2
    /\ Len(audio.samples) % 2 = 1
    /\ Len(mono_samples) >= ShortFrames
    /\ \E i \in 1..Len(mono_samples) : mono_samples[i] # 0

(* find_effective_end(mono_samples, SILENCE_THRESHOLD) has run and its     *)
(* value is search_end_idx (analysis.rs line 54)                           *)
Trimmed ==
    /\ pc \in {"coarse", "fine", "post", "complete", "done", "panicked"}
    /\ settings.detection_mode # "FadeOutOnly"
    /\ fade_out_info = None

Exceeds(i) == Abs(At(mono_samples, i)) > SILENCE_THRESHOLD

RECURSIVE TrailingZeros(_, _)
(* the number of zero samples at the end of s[1..n] *)
TrailingZeros(s, n) == IF n = 0 \/ s[n] # 0 THEN 0 ELSE 1 + TrailingZeros(s, n - 1)

TailIsQuiet == \A i \in search_end_idx..(Len(mono_samples) - 1) : ~Exceeds(i)

(* C15 as stated: the effective end is at most len - K when the last K     *)
(* samples are zero, and no sample from the effective end on exceeds the   *)
(* threshold.                                                              *)
C15_TrimsTrailingZeros ==
    Trimmed =>
        /\ search_end_idx
              <= Len(mono_samples) - TrailingZeros(mono_samples, Len(mono_samples))
        /\ TailIsQuiet

(* C15 amended: the same, the bound len - K only when some sample exceeds  *)
(* the threshold.                                                          *)
C15_TrimsTrailingZerosAfterSound ==
    Trimmed =>
        /\ (\E i \in 0..(Len(mono_samples) - 1) : Exceeds(i))
              => search_end_idx
                    <= Len(mono_samples) - TrailingZeros(mono_samples, Len(mono_samples))
        /\ TailIsQuiet

(* a track ending in zero samples, trimmed to before them *)
C15_Witness ==
    /\ Trimmed
    /\ TrailingZeros(mono_samples, Len(mono_samples)) >= 2
    /\ search_end_idx >= 1
    /\ search_end_idx < Len(mono_samples) - TrailingZeros(mono_samples, Len(mono_samples))

(* C16: when no sample exceeds the silence floor the effective end is the  *)
(* full length; otherwise it is i + 1 for the largest index i whose        *)
(* magnitude exceeds the floor.                                            *)
C16_EffectiveEndAfterLastSound ==
    Trimmed =>
        IF \E i \in 0..(Len(mono_samples) - 1) : Exceeds(i)
        THEN /\ search_end_idx >= 1
             /\ Exceeds(search_end_idx - 1)
             /\ TailIsQuiet
        ELSE search_end_idx = Len(mono_samples)

(* an all-silent, non-empty buffer, for which the full length is returned *)
C16_Witness ==
    /\ Trimmed
    /\ Len(mono_samples) >= ShortFrames
    /\ \A i \in 0..(Len(mono_samples) - 1) : ~Exceeds(i)
    /\ search_end_idx = Len(mono_samples)

----------------------------------------------------------------------------
(* Properties of detect_fade_out, on the runs of Spec that return a fade   *)

(* detect_fade_out has run and returned a fade *)
FadeDetected ==
    /\ pc \in {"loop", "coarse", "fine", "post", "complete", "done", "panicked"}
    /\ IsSome(fade_out_info)

(* the effective end of content, the window length and the onset, in mono  *)
(* frames                                                                  *)
FadeEnd == find_effective_end(mono_samples, <<settings.fade_out_threshold_volume, 2>>)
FadeWindow == MsToSamples(settings.fade_out_window_size_ms, audio.sample_rate)
Onset == Unwrap(fade_out_info).start_sample \div audio.channels

(* C17: a returned FadeOutInfo has duration_samples > 0 and ends at the    *)
(* effective end: start_sample + duration_samples = effective_end *        *)
(* channels <= len(samples).                                               *)
C17_FadeEndsAtEffectiveEnd ==
    FadeDetected =>
        LET fo == Unwrap(fade_out_info)
        IN /\ fo.duration_samples > 0
           /\ fo.start_sample + fo.duration_samples = FadeEnd * audio.channels
           /\ FadeEnd * audio.channels <= Len(audio.samples)

(* a stereo fade of several windows that ends before the end of the buffer *)
C17_Witness ==
    /\ FadeDetected
    /\ audio.channels = 2
    /\ FadeEnd < Len(mono_samples)
    /\ Unwrap(fade_out_info).duration_samples >= 4 * FadeWindow * audio.channels

(* C18: with fade_out_mode = Only the returned loop_points is None,        *)
(* whatever the detection mode.                                            *)
C18_FadeOnlyIgnoresLoop ==
    Returned /\ settings.fade_out_mode = "Only" => result.loop_points = None

(* sum of squares of the window of the backward scan that starts at i *)
WindowEnergy(i) == SumSq(mono_samples, i, i + FadeWindow)

(* C19: a fade is returned only if the fade lasts at least                 *)
(* min_fade_out_duration_ms, the onset window's RMS is at least            *)
(* fade_out_threshold_volume, and it is at least twice the RMS of the      *)
(* final window.                                                           *)
C19_FadeOnlyThroughGates ==
    FadeDetected =>
        /\ FadeEnd - Onset >= MsToSamples(settings.min_fade_out_duration_ms, audio.sample_rate)
        /\ WindowEnergy(Onset)
              >= settings.fade_out_threshold_volume * settings.fade_out_threshold_volume
                   * FadeWindow
        /\ WindowEnergy(Onset) >= 4 * WindowEnergy(FadeEnd - FadeWindow)

(* a fade returned with its onset window exactly twice as loud as the      *)
(* final window                                                            *)
C19_Witness ==
    /\ FadeDetected
    /\ WindowEnergy(Onset) = 4 * WindowEnergy(FadeEnd - FadeWindow)

(* the start frames of the windows of the backward scan, the final window  *)
(* first, and their energies (all windows have the same length, so RMS     *)
(* values compare as energies do)                                          *)
WindowStarts ==
    ScanWindows(FadeEnd, saturating_sub(FadeEnd, audio.sample_rate * SCAN_MAX_SEC),
                FadeWindow, << >>)
Energy(starts, k) == WindowEnergy(starts[k])
(* window k + 1 is louder than window k; it is more than 10% quieter *)
Rises(starts, k) == Energy(starts, k + 1) > Energy(starts, k)
Drops(starts, k) == 100 * Energy(starts, k + 1) < 81 * Energy(starts, k)
(* windows a..b form a run without a drop of more than 10% *)
TolerantRun(starts, a, b) == a <= b /\ \A k \in a..(b - 1) : ~Drops(starts, k)

(* C20 as stated: the onset is the earliest window (the last one met going *)
(* backward) of a longest contiguous run of the backward RMS sequence      *)
(* without a drop of more than 10%.                                        *)
C20_OnsetEndsLongestRun ==
    FadeDetected =>
        LET starts == WindowStarts
            n == Len(starts)
        IN \E a \in 1..n, b \in 1..n :
              /\ TolerantRun(starts, a, b)
              /\ \A c \in 1..n, d \in 1..n : TolerantRun(starts, c, d) => d - c <= b - a
              /\ Onset = starts[b]

(* C20 amended: going backward from the final window up to the first drop  *)
(* of more than 10% (or the end of the scan), the onset is the last window *)
(* that is louder than the window before it in the scan, and the final     *)
(* window if there is none.                                                *)
C20_OnsetIsLastRiseBeforeDrop ==
    FadeDetected =>
        LET starts == WindowStarts
            n == Len(starts)
            scanned == {k \in 1..(n - 1) : \A j \in 1..(k - 1) : ~Drops(starts, j)}
            rises == {k \in scanned : Rises(starts, k)}
        IN IF rises = {} THEN Onset = starts[1]
           ELSE \E k \in rises : /\ \A j \in rises : j <= k
                                  /\ Onset = starts[k + 1]

(* a fade whose scan passed a plateau and a regression under 10% and was   *)
(* stopped by a drop: the onset is a rise in the middle of the scan        *)
C20_Witness ==
    /\ FadeDetected
    /\ LET starts == WindowStarts
       IN /\ \E k \in 1..(Len(starts) - 1) : Drops(starts, k)
          /\ \E k \in 1..(Len(starts) - 1) :
                /\ starts[k] > Onset
                /\ ~Rises(starts, k) /\ ~Drops(starts, k)
          /\ Onset < starts[3]

(* detect_fade_out has run and got as far as its backward scan *)
FadeScanned ==
    /\ pc \in {"loop", "coarse", "fine", "post", "complete", "done", "panicked"}
    /\ settings.fade_out_mode # "None"
    /\ FadeEnd >= audio.sample_rate * MIN_AUDIO_SEC
    /\ FadeWindow > 0 /\ FadeWindow < FadeEnd

(* C21: every window of the backward scan lies inside                      *)
(* [effective_end - 60 * sample_rate, effective_end), the windows are      *)
(* contiguous, of the window size, and a returned fade has                 *)
(* duration_samples <= 60 * sample_rate * channels.                        *)
C21_ScanWithinSixtySeconds ==
    FadeScanned =>
        LET starts == WindowStarts
        IN /\ \A k \in 1..Len(starts) :
                 /\ starts[k] = FadeEnd - k * FadeWindow
                 /\ starts[k] >= 0
                 /\ starts[k] >= FadeEnd - SCAN_MAX_SEC * audio.sample_rate
                 /\ starts[k] + FadeWindow <= FadeEnd
           /\ IsSome(fade_out_info) =>
                 Unwrap(fade_out_info).duration_samples
                    <= SCAN_MAX_SEC * audio.sample_rate * audio.channels

(* a fade found on a track whose content is longer than 60 s: the scan     *)
(* stopped at the 60 s limit                                               *)
C21_Witness ==
    /\ FadeScanned
    /\ IsSome(fade_out_info)
    /\ FadeEnd > SCAN_MAX_SEC * audio.sample_rate + FadeWindow
    /\ Len(WindowStarts) * FadeWindow = SCAN_MAX_SEC * audio.sample_rate

(* C22: when a fade-out and a loop are both returned, the loop ends at the *)
(* fade onset minus the safety buffer, end_sample = max(0, onset frame -   *)
(* buffer frames) * channels, the loop is at least 1 sample long, and its  *)
(* confidence is the correlation the fine search returned.                 *)
C22_LoopEndsBufferBeforeFade ==
    BothDetected =>
        LET lp == Unwrap(result.loop_points)
            onset_frame == Unwrap(result.fade_out_info).start_sample \div audio.channels
            buffer_frames == (settings.fade_out_buffer_ms * audio.sample_rate) \div 1000
        IN /\ lp.end_sample = Max(0, onset_frame - buffer_frames) * audio.channels
           /\ lp.end_sample - lp.start_sample >= 1
           /\ lp.confidence = Unwrap(loop_points).confidence

(* a stereo run of the wrapping build that returned both, the loop ending  *)
(* two frames before the fade                                              *)
C22_Witness ==
    /\ BothDetected
    /\ ~overflow_checks
    /\ audio.channels = 2
    /\ Unwrap(result.loop_points).end_sample + 2 * audio.channels
          = Unwrap(result.fade_out_info).start_sample


----------------------------------------------------------------------------
(* The window of the fine pass as detect_loop_fft lays it out (lines       *)
(* 121-140) once the coarse pass left a lag, and the best correlation      *)
(* find_best_match_ncc_fine finds in it (lines 147-152).                   *)
QueryStart == search_end_idx - query_len_samples(audio.sample_rate)
EstimatedLag == Unwrap(best_coarse_lag) * downsample_factor(audio.sample_rate)
RefineRadius == audio.sample_rate * REFINE_RADIUS_SEC
FineRange ==
    [start |-> saturating_sub(EstimatedLag, RefineRadius),
     end |-> SearchEnd(EstimatedLag, RefineRadius, QueryStart)]
BestCorrelation ==
    find_best_match_ncc_fine(QueryRaw(mono_samples, audio.sample_rate, search_end_idx),
                             mono_samples, FineRange.start, FineRange.end)[2]
(* the run is over, by a return or by a panic, and had entered the loop    *)
(* search                                                                  *)
LoopSearchOver == pc \in {"done", "panicked"} /\ (\E i \in 1..Len(progress) : progress[i] = MsgCoarse)

(* C23: whenever the searchable region is shorter than 10 s or than two    *)
(* query windows of 15 s, or the fine range is degenerate (its end not     *)
(* above its start), or the best correlation found is below 0.3, the run   *)
(* completes and returns no loop.                                          *)
C23_ShortCircuitsToNoLoop ==
    LoopSearchOver =>
        LET sr == audio.sample_rate
            cut == \/ search_end_idx < 10 * sr
                   \/ search_end_idx < 2 * (15 * sr)
                   \/ /\ IsSome(best_coarse_lag)
                      /\ \/ FineRange.end <= FineRange.start
                         \/ BestCorrelation.num < 0
                         \/ 100 * BestCorrelation.num * BestCorrelation.num
                              < 9 * BestCorrelation.den_a * BestCorrelation.den_b
        IN cut => pc = "done" /\ result.loop_points = None


----------------------------------------------------------------------------
(* the coarse pass ran (lines 125-131), and the best match of its lag loop *)
(* (no lag is scanned when the query is empty)                             *)
CoarsePassRan ==
    /\ pc \in {"fine", "post", "complete", "done", "panicked"}
    /\ \E i \in 1..Len(progress) : progress[i] = MsgCoarse
    /\ ~TooShortToLoop(search_end_idx, audio.sample_rate)
    /\ search_end_idx >= query_len_samples(audio.sample_rate) * 2
CoarseMatch ==
    IF audio.sample_rate = 0 THEN None
    ELSE CoarseBest(downsample(Slice(mono_samples, 0, search_end_idx),
                               downsample_factor(audio.sample_rate)),
                    downsample(QueryRaw(mono_samples, audio.sample_rate, search_end_idx),
                               downsample_factor(audio.sample_rate)))
FinePassRan == \E i \in 1..Len(progress) : progress[i] = MsgFine

----------------------------------------------------------------------------
(* The volume of the matched window against the volume of the query:       *)
(* both windows have query_len frames, so match_rms / (query_rms + eps)    *)
(* compares as the sums of squares do (eps decides only the case of        *)
(* equality: at 25 * match = 16 * query the ratio is just below 0.8, at    *)
(* 25 * match = 36 * query it is just below 1.2).                          *)
MatchEnergy ==
    LET start == Unwrap(result.loop_points).start_sample \div audio.channels
    IN SumSq(mono_samples, start, start + query_len_samples(audio.sample_rate))
QueryEnergy == SumSq(mono_samples, QueryStart, search_end_idx)
MatchLouder == 25 * MatchEnergy > 36 * QueryEnergy
MatchQuieter == 25 * MatchEnergy <= 16 * QueryEnergy

RECURSIVE Gcd(_, _)
Gcd(a, b) == IF b = 0 THEN a ELSE Gcd(b, a % b)
(* the square of a correlation as a fraction in lowest terms *)
Squared(c) ==
    LET p == c.num * c.num
        q == c.den_a * c.den_b
        g == Gcd(p, q)
    IN [p |-> p \div g, q |-> q \div g]
(* conf = factor * ncc for two correlations that are not negative, the     *)
(* factor given as the fraction fp / fq                                    *)
IsScaled(conf, ncc, fp, fq) ==
    LET a == Squared(conf)
        b == Squared(ncc)
    IN fq * fq * a.p * b.q = fp * fp * b.p * a.q
(* conf = ncc + 1/5 for two correlations that are not negative:            *)
(* conf^2 - ncc^2 - 1/25 = (2/5) * ncc                                     *)
IsRaisedByFifth(conf, ncc) ==
    LET a == Squared(conf)
        b == Squared(ncc)
        d == 25 * a.p * b.q - 25 * b.p * a.q - a.q * b.q
    IN d >= 0 /\ d * d * b.q = 100 * b.p * a.q * a.q * b.q * b.q
LoopReturned == Returned /\ IsSome(result.loop_points)

----------------------------------------------------------------------------
(* the lengths n and m of the signal and the query handed to               *)
(* find_best_lag_fft (lines 128-131); the query is the last m samples of   *)
(* the signal when the downsample factor is 1                              *)
CoarseN == Len(downsample(Slice(mono_samples, 0, search_end_idx),
                          downsample_factor(audio.sample_rate)))
CoarseM == Len(downsample(QueryRaw(mono_samples, audio.sample_rate, search_end_idx),
                          downsample_factor(audio.sample_rate)))
CoarseLagReturned == CoarsePassRan /\ IsSome(best_coarse_lag)

(* C26 as stated: a lag returned by find_best_lag_fft is farther than      *)
(* query_len + safety margin from the query's own position n - m, and the  *)
(* matched window [lag, lag + m) does not overlap the query window.        *)
C26_LagClearOfQueryWindow ==
    CoarseLagReturned =>
        LET lag == Unwrap(best_coarse_lag)
        IN /\ (CoarseN - CoarseM) - lag > CoarseM + SELF_MATCH_MARGIN
           /\ lag + CoarseM <= CoarseN - CoarseM

(* C26 amended: a lag returned by find_best_lag_fft is farther than the    *)
(* safety margin from the query's own position n - m, so the matched       *)
(* window shares fewer than m - margin samples with the query window, and  *)
(* none when m is at most the margin.                                      *)
C26_LagClearOfMargin ==
    CoarseLagReturned =>
        LET lag == Unwrap(best_coarse_lag)
            shared == Max(0, lag + CoarseM - (CoarseN - CoarseM))
        IN /\ (CoarseN - CoarseM) - lag > SELF_MATCH_MARGIN
           /\ shared <= Max(0, CoarseM - SELF_MATCH_MARGIN - 1)

(* a returned lag whose window runs into the query window *)
C26_Witness ==
    /\ CoarseLagReturned
    /\ Unwrap(best_coarse_lag) + CoarseM > CoarseN - CoarseM
    /\ (CoarseN - CoarseM) - Unwrap(best_coarse_lag) > SELF_MATCH_MARGIN


----------------------------------------------------------------------------
(* C27: the start frame of every returned loop lies within 2 s of the      *)
(* coarse estimate L, in [L - 2*sample_rate, L + 2*sample_rate), and below *)
(* query_start - 1000; the candidate window [start, start + query_len)     *)
(* then ends at or before query_start and the loop body is longer than the *)
(* query window.                                                           *)
C27_FineStartInsideNeighbourhood ==
    LoopReturned =>
        LET lp == Unwrap(result.loop_points)
            start == lp.start_sample \div audio.channels
            query_len == query_len_samples(audio.sample_rate)
        IN /\ start >= EstimatedLag - RefineRadius
           /\ start < EstimatedLag + RefineRadius
           /\ start < QueryStart - QUERY_GUARD
           /\ start + query_len <= QueryStart
           /\ (lp.end_sample \div audio.channels) - start > query_len


----------------------------------------------------------------------------
(* One call of next() on a LoopingSource built from the analysed track and *)
(* the returned loop points, at cursor c, with looping allowed (no limit,  *)
(* or no loop taken yet of a limit of one).                                *)
NextFrom(c, max) ==
    LoopingSource_next(audio, Unwrap(result.loop_points), c, 0, max)

(* C28: the indices returned by run_analysis are multiples of channels     *)
(* (loop start and end, fade-out start and duration), so a LoopingSource   *)
(* built from them, which starts at cursor 0, keeps its cursor below       *)
(* end_sample while looping is allowed: from every cursor below end_sample *)
(* a call of next() emits the sample at the cursor and jumps back to       *)
(* start_sample exactly when the advanced cursor equals end_sample.        *)
C28_IndicesFrameAligned ==
    Returned =>
        /\ IsSome(result.fade_out_info) =>
              LET fo == Unwrap(result.fade_out_info)
              IN /\ fo.start_sample % audio.channels = 0
                 /\ fo.duration_samples % audio.channels = 0
        /\ IsSome(result.loop_points) =>
              LET lp == Unwrap(result.loop_points)
              IN /\ lp.start_sample % audio.channels = 0
                 /\ lp.end_sample % audio.channels = 0
                 /\ \A c \in 0..(lp.end_sample - 1) : \A max \in {None, Some(1)} :
                       LET r == NextFrom(c, max)
                       IN /\ r.item = Some(At(audio.samples, c))
                          /\ r.cursor < lp.end_sample
                          /\ IF c + 1 = lp.end_sample
                             THEN r.cursor = lp.start_sample /\ r.loop_count = 1
                             ELSE r.cursor = c + 1 /\ r.loop_count = 0

(* a stereo track returned with a fade-out and a loop that ends before the *)
(* end of the buffer and starts after its beginning                        *)
C28_Witness ==
    /\ BothDetected
    /\ audio.channels = 2
    /\ Unwrap(result.loop_points).start_sample > 0
    /\ Unwrap(result.loop_points).end_sample < Len(audio.samples)
    /\ NextFrom(Unwrap(result.loop_points).end_sample - 1, None).cursor
         = Unwrap(result.loop_points).start_sample


----------------------------------------------------------------------------
(* Properties of the window (GuiSpec)                                      *)

(* C29: whenever the state becomes Ready(data, result), it replaces an     *)
(* Analyzing state of the same data, and the result was computed by        *)
(* run_analysis on that data with the settings recorded in that Analyzing  *)
(* state: a late Analyzed message of an earlier run is never adopted.      *)
C29_ReadyResultIsOfTheRunAwaited ==
    [][(app_state'.tag = "Ready" /\ app_state' # app_state) =>
          /\ app_state.tag = "Analyzing"
          /\ app_state'.data = app_state.data
          /\ app_state'.result = Some(run_analysis(Unwrap(app_state.data),
                                                   Unwrap(app_state.settings)))]_vars

(* C30: an Analyzed message received in the Analyzing state changes the    *)
(* state to Ready with the same audio data and the result of the message;  *)
(* received in any other state it leaves the state unchanged.              *)
C30_AnalyzedOnlyEndsAnalyzing ==
    [][(frame = "recv" /\ msg_queue # << >> /\ Head(msg_queue).tag = "Analyzed"
          /\ msg_queue' = Tail(msg_queue)) =>
          IF app_state.tag = "Analyzing"
          THEN /\ app_state'.tag = "Ready"
               /\ app_state'.data = app_state.data
               /\ app_state'.result = Head(msg_queue).result
          ELSE app_state' = app_state]_vars

(* an Analyzed message was just received in the Ready state, with a result *)
(* other than the one shown, and the state is as it was                    *)
C30_Witness ==
    /\ IsSome(last_received)
    /\ Unwrap(last_received).msg.tag = "Analyzed"
    /\ Unwrap(last_received).met.tag = "Ready"
    /\ Unwrap(last_received).met.result # Unwrap(last_received).msg.result
    /\ app_state = Unwrap(last_received).met

====
